---- MODULE Spec2Model ----
(***************************************************************************)
(* Boundary conditions of firedrake/bcs.py as a state machine.             *)
(*                                                                         *)
(* Objects live in `heap` (a sequence; an object's identity is its index). *)
(* Every method of BCBase, DirichletBC, EquationBC and the module-level    *)
(* homogenize is one action; the property getter/setter `function_arg`,    *)
(* the constructors and the helpers they call are operators that return    *)
(* the object after the call together with the value returned or the       *)
(* exception raised.                                                       *)
(***************************************************************************)
EXTENDS Integers, Sequences, FiniteSets, TLC

VARIABLES
    heap,       \* the boundary-condition objects constructed so far
    state,      \* Expression._state of every Expression object
    r,          \* the Function handed to apply as its target
    u,          \* the Function handed to apply as the current state
    ret,        \* what the last call returned or raised
    watch       \* observer: where the calls stand in the sequences the properties follow

vars == <<heap, state, r, u, ret, watch>>

-----------------------------------------------------------------------------
(* Bounds of the model.                                                    *)

\* Expression._state is a counter; mutations stop at this value.
MaxState == 2
\* Objects the heap may hold.
MaxBCs == 2
\* Longest list handed to the module-level homogenize.
MaxList == 2

-----------------------------------------------------------------------------
(* Python's None for integer-valued and object-valued attributes.          *)

None == -1
NoSpace == "None"
NoVal == [kind |-> "None"]

-----------------------------------------------------------------------------
(* The function spaces (collaborator objects): a mixed space W with the    *)
(* indexed subspaces W.sub(0) (scalar) and W.sub(1) (vector, two           *)
(* components) and the component spaces of W.sub(1); the stand-alone       *)
(* scalar spaces V (point evaluation) and Q (no point evaluation); spaces  *)
(* on the elements BCBase refuses; an extruded vector space and its         *)
(* components; a mixed space M on a mesh of dimension 1 with a Hermite     *)
(* and a Lagrange subspace.                                                *)

Space(parent, index, component, element, tdim, extruded, point_eval, value_size) ==
    [parent |-> parent, index |-> index, component |-> component,
     finat_element |-> element, topological_dimension |-> tdim,
     extruded |-> extruded, point_eval |-> point_eval, value_size |-> value_size]

FS ==
    [V    |-> Space(NoSpace, None, None, "Lagrange", 2, FALSE, TRUE, 1),
     Q    |-> Space(NoSpace, None, None, "RaviartThomas", 2, FALSE, FALSE, 1),
     W    |-> Space(NoSpace, None, None, "Mixed", 2, FALSE, TRUE, 3),
     W0   |-> Space("W", 0, None, "Lagrange", 2, FALSE, TRUE, 1),
     W1   |-> Space("W", 1, None, "Lagrange", 2, FALSE, TRUE, 2),
     W1c0 |-> Space("W1", None, 0, "Lagrange", 2, FALSE, TRUE, 1),
     W1c1 |-> Space("W1", None, 1, "Lagrange", 2, FALSE, TRUE, 1),
     A    |-> Space(NoSpace, None, None, "Argyris", 2, FALSE, TRUE, 1),
     H1   |-> Space(NoSpace, None, None, "Hermite", 1, FALSE, TRUE, 1),
     H2   |-> Space(NoSpace, None, None, "Hermite", 2, FALSE, TRUE, 1),
     X    |-> Space(NoSpace, None, None, "Lagrange", 3, TRUE, TRUE, 2),
     Xc0  |-> Space("X", None, 0, "Lagrange", 3, TRUE, TRUE, 1),
     Xc1  |-> Space("X", None, 1, "Lagrange", 3, TRUE, TRUE, 1),
     M    |-> Space(NoSpace, None, None, "Mixed", 1, FALSE, TRUE, 2),
     M0   |-> Space("M", 0, None, "Hermite", 1, FALSE, TRUE, 1),
     M1   |-> Space("M", 1, None, "Lagrange", 1, FALSE, TRUE, 1)]

FunctionSpaces == DOMAIN FS

\* The subspaces of a space, in the order of sub(0), sub(1), ...
SubSpaces(V) ==
    CASE V = "W"  -> <<"W0", "W1">>
      [] V = "W1" -> <<"W1c0", "W1c1">>
      [] V = "X"  -> <<"Xc0", "Xc1">>
      [] V = "M"  -> <<"M0", "M1">>
      [] OTHER    -> <<>>

-----------------------------------------------------------------------------
(* The values a caller may hand to a DirichletBC.                          *)

Literal(c) == [kind |-> "Literal", c |-> c]
Function(V, name) == [kind |-> "Function", fs |-> V, name |-> name]
Expression(id) == [kind |-> "Expression", id |-> id]
ListOfLiterals(c) == [kind |-> "List", c |-> c]
SpatialExpr(name) == [kind |-> "SpatialCoordinate", name |-> name]
Junk == [kind |-> "Junk"]

\* The Expression objects with user-defined variables.
Expressions == {"e1", "e2"}

isinstance(g, kind) == g.kind = kind

-----------------------------------------------------------------------------
(* Python values of mixed type that end up in one tuple are tagged, so     *)
(* that 1, (1,) and "1" stay different, as they are in Python.             *)

PyInt(i) == [int |-> i]
PyStr(s) == [str |-> s]
PyTuple(t) == [tuple |-> t]

\* pyop2.utils.as_tuple: a tuple stays, a single item becomes a 1-tuple.
as_tuple(x) == IF "tuple" \in DOMAIN x THEN x ELSE PyTuple(<<x.int>>)

\* The sub_domain arguments callers pass.
SubDomains == {PyInt(1), PyInt(2), PyTuple(<<1, 2>>), PyStr("on_boundary")}

\* The method arguments callers pass; the last one is not a method.
Methods == {"topological", "geometric", "nearest"}

-----------------------------------------------------------------------------
(* BCBase                                                                  *)

\* BCBase.domain_args
domain_args(sub_domain) ==
    IF "str" \in DOMAIN sub_domain
    THEN <<sub_domain>>
    ELSE <<as_tuple(sub_domain)>>

\* The three lists the loop of BCBase.__init__ fills while it walks from fs
\* to the root: at each level the index (if any), then the component (if any).
RECURSIVE WalkParents(_)
WalkParents(fs) ==
    LET idx  == IF FS[fs].index # None THEN <<FS[fs].index>> ELSE <<>>
        cmp  == IF FS[fs].component # None THEN <<FS[fs].component>> ELSE <<>>
        here == [indexing |-> idx, components |-> cmp, indices |-> idx \o cmp]
    IN  IF FS[fs].parent # NoSpace
        THEN LET up == WalkParents(FS[fs].parent)
             IN  [indexing   |-> here.indexing \o up.indexing,
                  components |-> here.components \o up.components,
                  indices    |-> here.indices \o up.indices]
        ELSE here

\* The list taken as it was collected.
not_reversed(s) == s

\* Python's reversed() on a list.
reversed(s) == [i \in 1..Len(s) |-> s[Len(s) + 1 - i]]

\* The result of a call: the object (or value) with no exception, or the
\* exception raised.
Ok(x) == [err |-> "", val |-> x]
Raise(e) == [err |-> e, val |-> NoVal]

\* An object of class cls before __init__ has assigned anything; the
\* cached properties nodes and node_set are not computed yet.
NewObject(cls) ==
    [class |-> cls,
     _function_space |-> NoSpace, sub_domain |-> NoVal, method |-> "",
     _indices |-> <<>>, _cache_key |-> <<>>,
     nodes |-> [cached |-> FALSE], node_set |-> [cached |-> FALSE],
     boundary_nodes_calls |-> 0]

\* Line 79 without tuple(indexing).
cache_key_without_indexing(sub_domain, method, indexing, components) ==
    << domain_args(sub_domain) \o <<PyStr(method)>>, components >>

\* Line 79: (self.domain_args + (self.method, ) + tuple(indexing), tuple(components))
cache_key(sub_domain, method, indexing, components) ==
    << domain_args(sub_domain) \o <<PyStr(method)>>
           \o [i \in 1..Len(indexing) |-> PyInt(indexing[i])],
       components >>

\* BCBase.__init__(self, V, sub_domain, method)
BCBase_init(self, V, sub_domain, method) ==
    IF \/ FS[V].finat_element \in {"Argyris", "Morley", "Bell"}
       \/ (FS[V].finat_element = "Hermite" /\ FS[V].topological_dimension > 1)
    THEN Raise("NotImplementedError")
    ELSE IF method \notin {"topological", "geometric"}
    THEN Raise("ValueError")
    ELSE IF FS[V].extruded /\ FS[V].component # None
    THEN Raise("NotImplementedError")
    ELSE LET w == WalkParents(V)
         IN  Ok([self EXCEPT
                 !._function_space = V,
                 !.sub_domain = sub_domain,
                 !.method = method,
                 !._indices = reversed(w.indices),
                 !._cache_key = cache_key(sub_domain, method, w.indexing, w.components)])

-----------------------------------------------------------------------------
(* DirichletBC: the property function_arg                                  *)

\* Expression._state of an Expression object; one that to_expression has
\* just built is in its initial state.
InitialState == 0
StateOf(g, st) == IF g.id \in Expressions THEN st[g.id] ELSE InitialState

\* expression.to_expression: a list of literal constants becomes a new
\* Expression.
to_expression(g) == [kind |-> "Expression", id |-> "to_expression", c |-> g.c]

\* function.Function(V).interpolate(g), and projection.project(g, V) where V
\* has no point evaluation: a new Function on V that holds g as it is now.
Resolve(V, g, st) ==
    [kind |-> "Function", fs |-> V,
     name |-> IF FS[V].point_eval THEN "interpolate" ELSE "project",
     of |-> g,
     at |-> IF isinstance(g, "Expression") THEN StateOf(g, st) ELSE None]

\* The setter of function_arg: self.function_arg = g
function_arg_set(self, g, st) ==
    IF isinstance(g, "Function") /\ g.fs # self._function_space
    THEN Raise("RuntimeError")
    ELSE IF isinstance(g, "Junk")
    THEN Raise("ValueError")
    ELSE LET g1 == IF isinstance(g, "List") THEN to_expression(g) ELSE g
             s1 == IF isinstance(g1, "Expression")
                   THEN [self EXCEPT !._expression_state = StateOf(g1, st)]
                   ELSE self
             g2 == IF isinstance(g1, "Expression") \/ isinstance(g1, "SpatialCoordinate")
                   THEN Resolve(self._function_space, g1, st)
                   ELSE g1
         IN  Ok([s1 EXCEPT !._function_arg = g2, !._currently_zeroed = FALSE])

\* Lines 177-179 of the getter: self has just been through the setter with
\* the original value; the read on line 179 finds the state the setter has
\* just stored, so it returns _function_arg as it is.
Reinterpolated(self) ==
    [self |-> [self EXCEPT !._original_arg = self._function_arg],
     val  |-> self._function_arg]

\* The getter without its test of _currently_zeroed.
function_arg_get_ignoring_zeroed(self, st) ==
    IF /\ isinstance(self._original_val, "Expression")
       /\ StateOf(self._original_val, st) # self._expression_state
    THEN Reinterpolated(function_arg_set(self, self._original_val, st).val)
    ELSE [self |-> self, val |-> self._function_arg]

\* The getter of function_arg: returns the object after the read and the
\* value read.
function_arg_get(self, st) ==
    IF /\ isinstance(self._original_val, "Expression")
       /\ ~self._currently_zeroed
       /\ StateOf(self._original_val, st) # self._expression_state
    THEN Reinterpolated(function_arg_set(self, self._original_val, st).val)
    ELSE [self |-> self, val |-> self._function_arg]

\* The read whose value is not kept as the restore point.
RememberRead_skipped(got) == got.self

\* self._original_arg = self.function_arg, `got` being what the getter gave.
RememberRead(got) == [got.self EXCEPT !._original_arg = got.val]

\* Lines 167-168 of DirichletBC.__init__, after the setter has returned.
DirichletBC_init_read(set, st) ==
    IF set.err # "" THEN set
    ELSE Ok([RememberRead(function_arg_get(set.val, st)) EXCEPT !._currently_zeroed = FALSE])

\* Lines 165-168 of DirichletBC.__init__, after BCBase.__init__ has returned.
DirichletBC_init_value(base, g, st) ==
    IF base.err # "" THEN base
    ELSE DirichletBC_init_read(
             function_arg_set([base.val EXCEPT !._original_val = g], g, st), st)

\* A DirichletBC before __init__ has assigned anything.
NewDirichletBC ==
    NewObject("DirichletBC") @@
    [_original_val |-> NoVal, _function_arg |-> NoVal, _original_arg |-> NoVal,
     _currently_zeroed |-> FALSE, _expression_state |-> None]

\* DirichletBC.__init__(self, V, g, sub_domain, method)
DirichletBC_init(V, g, sub_domain, method, st) ==
    DirichletBC_init_value(
        BCBase_init(NewDirichletBC, V, sub_domain, "topological"), g, st)

\* homogenize that takes 0 for the restore point as well.
homogenize_moving_restore_point(self, st) ==
    [function_arg_set(self, Literal(0), st).val EXCEPT
        !._currently_zeroed = TRUE, !._original_arg = Literal(0)]

\* DirichletBC.homogenize(self)
homogenize(self, st) ==
    [function_arg_set(self, Literal(0), st).val EXCEPT !._currently_zeroed = TRUE]

\* restore that clears the flag and leaves _function_arg as it is.
restore_flag_only(self) ==
    [self EXCEPT !._currently_zeroed = FALSE]

\* DirichletBC.restore(self)
restore(self) ==
    [self EXCEPT !._function_arg = self._original_arg, !._currently_zeroed = FALSE]

\* Lines 245-246 of set_value, after the setter has returned.
set_value_read(set, val, st) ==
    IF set.err # "" THEN set
    ELSE Ok([RememberRead(function_arg_get(set.val, st)) EXCEPT !._original_val = val])

\* set_value that takes a Function on any space.
set_value_on_any_space(self, val, st) ==
    IF isinstance(val, "Function") /\ val.fs # self._function_space
    THEN Ok([self EXCEPT !._function_arg = val, !._original_arg = val,
                         !._original_val = val, !._currently_zeroed = FALSE])
    ELSE set_value_read(function_arg_set(self, val, st), val, st)

\* DirichletBC.set_value(self, val)
set_value(self, val, st) ==
    set_value_read(function_arg_set(self, val, st), val, st)

\* Python's None as the method argument.
NoMethod == "None"

\* reconstruct comparing g with the value in force instead of the original.
reconstruct_with_current_value(self, V, g, sub_domain, method, st) ==
    IF /\ V = self._function_space
       /\ g = self._function_arg
       /\ sub_domain = self.sub_domain
       /\ method = self.method
    THEN [same |-> TRUE, made |-> Raise("")]
    ELSE [same |-> FALSE, made |-> DirichletBC_init(V, g, sub_domain, method, st)]

\* Lines 191-194 of reconstruct, the defaults filled in: `same` tells that
\* self is returned; otherwise `made` is what
\* type(self)(V, g, sub_domain, method=method) returns or raises.
reconstruct_with(self, V, g, sub_domain, method, st) ==
    IF /\ V = self._function_space
       /\ g = self._original_arg
       /\ sub_domain = self.sub_domain
       /\ method = self.method
    THEN [same |-> TRUE, made |-> Raise("")]
    ELSE [same |-> FALSE, made |-> DirichletBC_init(V, g, sub_domain, method, st)]

\* DirichletBC.reconstruct(self, V=None, g=None, sub_domain=None, method=None)
reconstruct(self, V, g, sub_domain, method, st) ==
    reconstruct_with(self,
        IF V = NoSpace THEN self._function_space ELSE V,
        IF g = NoVal THEN self._original_arg ELSE g,
        IF sub_domain = NoVal THEN self.sub_domain ELSE sub_domain,
        IF method = NoMethod THEN self.method ELSE method,
        st)

-----------------------------------------------------------------------------
(* EquationBC and EquationBCSplit                                          *)

\* A ufl.Form or a slate tensor with `nargs` arguments on the space fs.
Form(name, nargs, fs) == [kind |-> "Form", name |-> name, nargs |-> nargs, fs |-> fs]
Tensor(name, nargs, fs) == [kind |-> "Tensor", name |-> name, nargs |-> nargs, fs |-> fs]
Equation(lhs, rhs) == [lhs |-> lhs, rhs |-> rhs]

IsFormOrTensor(x) == isinstance(x, "Form") \/ isinstance(x, "Tensor")

\* ufl_expr.action, ufl_expr.derivative and the difference of two forms.
action(J, unknown) == [kind |-> "Form", name |-> "action", of |-> J, u |-> unknown, nargs |-> 1, fs |-> J.fs]
derivative(F, unknown) == [kind |-> "Form", name |-> "derivative", of |-> F, u |-> unknown, nargs |-> 2, fs |-> F.fs]
minus(a, b) == [kind |-> "Form", name |-> "minus", of |-> a, rhs |-> b, nargs |-> 1, fs |-> a.fs]

\* Python's `x or y` for x that is None or an object.
or_else(x, y) == IF x = NoVal THEN y ELSE x

\* Lines 372-383 of EquationBC.__init__: both sides are Forms.  The test
\* `eq.rhs is 0` is made on a Form here, which is never the integer 0.
EquationBC_linear(self, eq, Jp) ==
    IF eq.rhs.nargs # 1
    THEN Raise("ValueError")
    ELSE Ok([self EXCEPT !.J = eq.lhs, !.Jp = or_else(Jp, eq.lhs),
                         !.F = minus(action(eq.lhs, self.u), eq.rhs),
                         !.is_linear = TRUE])

\* Lines 385-403 of EquationBC.__init__.
EquationBC_nonlinear(self, eq, J, Jp) ==
    IF eq.rhs # Literal(0) THEN Raise("TypeError")
    ELSE IF ~IsFormOrTensor(eq.lhs) THEN Raise("TypeError")
    ELSE IF eq.lhs.nargs # 1 THEN Raise("ValueError")
    ELSE IF J # NoVal /\ ~IsFormOrTensor(J) THEN Raise("TypeError")
    ELSE IF J # NoVal /\ J.nargs # 2 THEN Raise("ValueError")
    ELSE IF Jp # NoVal /\ ~IsFormOrTensor(Jp) THEN Raise("TypeError")
    ELSE IF Jp # NoVal /\ Jp.nargs # 2 THEN Raise("ValueError")
    ELSE Ok([self EXCEPT !.F = eq.lhs,
                         !.J = or_else(J, derivative(eq.lhs, self.u)),
                         !.Jp = or_else(Jp, or_else(J, derivative(eq.lhs, self.u))),
                         !.is_linear = FALSE])

\* Lines 356-403 of EquationBC.__init__, after BCBase.__init__ has returned.
EquationBC_init_forms(base, eq, unknown, J, Jp) ==
    IF base.err # "" THEN base
    ELSE IF isinstance(eq.lhs, "Form") /\ isinstance(eq.rhs, "Form")
    THEN EquationBC_linear(
             base.val @@ [u |-> unknown, f |-> NoVal, bcs |-> NoVal, Jp_eq_J |-> Jp = NoVal,
                          J |-> NoVal, Jp |-> NoVal, F |-> NoVal, is_linear |-> FALSE],
             eq, Jp)
    ELSE EquationBC_nonlinear(
             base.val @@ [u |-> unknown, f |-> NoVal, bcs |-> NoVal, Jp_eq_J |-> Jp = NoVal,
                          J |-> NoVal, Jp |-> NoVal, F |-> NoVal, is_linear |-> FALSE],
             eq, J, Jp)

\* EquationBC.__init__(self, eq, u, sub_domain, J, Jp, method): the space is
\* that of the first argument of eq.lhs.
EquationBC_init(eq, unknown, sub_domain, J, Jp, method) ==
    IF ~IsFormOrTensor(eq.lhs) THEN Raise("AttributeError")
    ELSE IF eq.lhs.nargs = 0 THEN Raise("IndexError")
    ELSE EquationBC_init_forms(
             BCBase_init(NewObject("EquationBC"), eq.lhs.fs, sub_domain, "topological"),
             eq, unknown, J, Jp)

\* Lines 411-421 of EquationBCSplit.__init__, after BCBase.__init__ has returned.
EquationBCSplit_init_form(base, ebc, form_str) ==
    IF base.err # "" THEN base
    ELSE IF form_str \notin {"F", "J", "Jp"} THEN Raise("TypeError")
    ELSE Ok(base.val @@
            [u |-> ebc.u,
             f |-> CASE form_str = "F" -> ebc.F [] form_str = "J" -> ebc.J [] form_str = "Jp" -> ebc.Jp,
             bcs |-> NoVal])

\* EquationBCSplit.__init__(self, ebc, form_str)
EquationBCSplit_init(ebc, form_str) ==
    IF ebc.class # "EquationBC" THEN Raise("TypeError")
    ELSE EquationBCSplit_init_form(
             BCBase_init(NewObject("EquationBCSplit"), ebc._function_space, ebc.sub_domain,
                         "topological"),
             ebc, form_str)

-----------------------------------------------------------------------------
(* What the callers do.                                                    *)

\* The values handed to DirichletBC and set_value: literal constants,
\* Functions on V and on Q, two Expressions with user-defined variables, a
\* list of literals, a UFL expression in the coordinates, and an object
\* that is none of these.
Values ==
    {Literal(0), Literal(1), Function("V", "f"), Function("Q", "h"),
     Expression("e1"), Expression("e2"), ListOfLiterals(<<1, 2>>),
     SpatialExpr("x"), Junk}

\* The record of a call in ret and watch.
Call(op, self, arg, res) ==
    [op |-> op, self |-> self, arg |-> arg, err |-> res.err, val |-> res.val]

\* watch follows two sequences of calls on one object.
\*   set:   a successful set_value(v), then reads and restores only;
\*   round: a read, then homogenize, then restore, then a read.
\* Any other call in between ends the sequence.
NoSet == [self |-> 0, v |-> NoVal, restored |-> FALSE]
NoRound == [self |-> 0, stage |-> "", active |-> FALSE, pre |-> NoVal, post |-> NoVal]

WatchSet(w, call) ==
    IF call.op = "set_value" /\ call.err = ""
    THEN [self |-> call.self, v |-> call.arg, restored |-> FALSE]
    ELSE IF w.self # 0 /\ call.self = w.self /\ call.op = "function_arg"
    THEN w
    ELSE IF w.self # 0 /\ call.self = w.self /\ call.op = "restore"
    THEN [w EXCEPT !.restored = TRUE]
    ELSE NoSet

\* `homogenized` is _currently_zeroed of the object when the call was made.
WatchRound(w, call, homogenized) ==
    LET same == w.self # 0 /\ call.self = w.self
    IN  IF call.op = "function_arg" /\ same /\ w.stage = "restored"
        THEN [w EXCEPT !.stage = "read again", !.post = call.val]
        ELSE IF call.op = "function_arg"
        THEN [self |-> call.self, stage |-> "read", active |-> ~homogenized,
              pre |-> call.val, post |-> NoVal]
        ELSE IF call.op = "homogenize" /\ same /\ w.stage = "read"
        THEN [w EXCEPT !.stage = "homogenized"]
        ELSE IF call.op = "restore" /\ same /\ w.stage = "homogenized"
        THEN [w EXCEPT !.stage = "restored"]
        ELSE NoRound

Returned(call) ==
    /\ ret' = call
    /\ watch' =
         IF watch.on
         THEN [on    |-> TRUE,
               set   |-> WatchSet(watch.set, call),
               round |-> WatchRound(watch.round, call,
                                    /\ call.self \in 1..Len(heap)
                                    /\ heap[call.self]._currently_zeroed)]
         ELSE watch

\* bc.function_arg
ReadReturns(b, got) ==
    /\ heap' = [heap EXCEPT ![b] = got.self]
    /\ Returned(Call("function_arg", b, NoVal, Ok(got.val)))

Read(b) ==
    /\ b \in 1..Len(heap)
    /\ heap[b].class = "DirichletBC"
    /\ ReadReturns(b, function_arg_get(heap[b], state))
    /\ UNCHANGED <<state, r, u>>

\* bc.set_value(val)
SetValueReturns(b, val, res) ==
    /\ heap' = IF res.err = "" THEN [heap EXCEPT ![b] = res.val] ELSE heap
    /\ Returned(Call("set_value", b, val, [res EXCEPT !.val = NoVal]))

SetValue(b, val) ==
    /\ b \in 1..Len(heap)
    /\ heap[b].class = "DirichletBC"
    /\ SetValueReturns(b, val, set_value(heap[b], val, state))
    /\ UNCHANGED <<state, r, u>>

\* bc.homogenize()
Homogenize(b) ==
    /\ b \in 1..Len(heap)
    /\ heap[b].class = "DirichletBC"
    /\ heap' = [heap EXCEPT ![b] = homogenize(heap[b], state)]
    /\ Returned(Call("homogenize", b, NoVal, Ok(NoVal)))
    /\ UNCHANGED <<state, r, u>>

\* bc.restore()
Restore(b) ==
    /\ b \in 1..Len(heap)
    /\ heap[b].class = "DirichletBC"
    /\ heap' = [heap EXCEPT ![b] = restore(heap[b])]
    /\ Returned(Call("restore", b, NoVal, Ok(NoVal)))
    /\ UNCHANGED <<state, r, u>>

\* The caller assigns one of the user-defined variables of Expression e.
Mutate(e) ==
    /\ state[e] < MaxState
    /\ state' = [state EXCEPT ![e] = @ + 1]
    /\ Returned(Call("mutate", 0, Expression(e), Ok(NoVal)))
    /\ UNCHANGED <<heap, r, u>>

\* No Function: the target before any is chosen, the current state left out.
NoField == NoVal

\* One DirichletBC has been constructed, on V or on Q; `on` tells whether
\* the observer follows the calls.
Constructed(on) ==
    /\ heap \in {<<made.val>> :
                   made \in {m \in {DirichletBC_init(V, g, PyInt(1), "topological",
                                                     [e \in Expressions |-> 0]) :
                                        V \in {"V", "Q"}, g \in Values} : m.err = ""}}
    /\ state = [e \in Expressions |-> 0]
    /\ r = NoField
    /\ u = NoField
    /\ ret = Call("DirichletBC", 1, NoVal, Ok(NoVal))
    /\ watch = [on |-> on, set |-> NoSet, round |-> NoRound]

Init == Constructed(TRUE)

Next ==
    \/ Read(1)
    \/ \E val \in Values : SetValue(1, val)
    \/ Homogenize(1)
    \/ Restore(1)
    \/ \E e \in Expressions : Mutate(e)

Spec == Init /\ [][Next]_vars

-----------------------------------------------------------------------------
(* Properties of the value a DirichletBC tracks.                           *)

\* What the value resolution algorithm yields for v on the space of object b
\* with the Expressions as they are now.
Resolution(b, v) ==
    function_arg_set(BCBase_init(NewDirichletBC, heap[b]._function_space,
                                 heap[b].sub_domain, heap[b].method).val,
                     v, state).val._function_arg

\* C1: after set_value(v), a read of function_arg returns the resolution of
\* v, and so does a read after a following restore(): never the resolution
\* of a value supplied earlier.
C1_SetValueSetsValueAndRestorePoint ==
    (watch.set.self # 0 /\ ret.op = "function_arg" /\ ret.self = watch.set.self)
        => ret.val = Resolution(ret.self, watch.set.v)

\* C2: the value read from function_arg just before homogenize() equals the
\* value read just after an immediately following restore(), whatever calls
\* came before.
C2_RoundTripFromAnyState ==
    watch.round.stage = "read again" => watch.round.post = watch.round.pre

\* C2, amended: the same, for an object that is not homogenized when the
\* first read is made.
C2_RoundTripFromActive ==
    (watch.round.stage = "read again" /\ watch.round.active)
        => watch.round.post = watch.round.pre

\* C2, witness: a round trip from the active state over the interpolation of
\* an Expression that had been mutated before.
C2_Witness ==
    /\ watch.round.stage = "read again"
    /\ watch.round.active
    /\ isinstance(heap[1]._original_val, "Expression")
    /\ watch.round.pre = Resolve(heap[1]._function_space, heap[1]._original_val, state)
    /\ watch.round.pre.at > 0

\* C3: whenever the object is not homogenized, a read of function_arg
\* returns the resolution of the current original value as it is now.
C3_ReadIsResolutionOfOriginal ==
    (ret.op = "function_arg" /\ ~heap[ret.self]._currently_zeroed)
        => ret.val = Resolution(ret.self, heap[ret.self]._original_val)

\* C4: a read of function_arg on a homogenized object returns zero and
\* changes nothing of the object (no re-resolution: _original_arg,
\* _expression_state and _currently_zeroed stay), however far the original
\* Expression has moved on.
C4_HomogenizedReadIsZeroAndPure ==
    [][\A b \in 1..Len(heap) :
         (heap[b]._currently_zeroed /\ Read(b))
            => (ret'.val = Literal(0) /\ heap'[b] = heap[b])]_vars

\* C4, witness: a read has just been made on a homogenized object whose
\* original Expression has been mutated twice since its last resolution.
C4_Witness ==
    /\ ret.op = "function_arg"
    /\ heap[ret.self]._currently_zeroed
    /\ isinstance(heap[ret.self]._original_val, "Expression")
    /\ StateOf(heap[ret.self]._original_val, state) >= heap[ret.self]._expression_state + 2

-----------------------------------------------------------------------------
(* reconstruct                                                             *)

\* A reference to the object at index i of the heap.
Ref(i) == [obj |-> i]

\* bc.reconstruct(V=V, g=g, sub_domain=sub_domain, method=method)
ReconstructReturns(b, args, res) ==
    IF res.same
    THEN /\ heap' = heap
         /\ Returned(Call("reconstruct", b, args, Ok(Ref(b))))
    ELSE IF res.made.err # ""
    THEN /\ heap' = heap
         /\ Returned(Call("reconstruct", b, args, res.made))
    ELSE /\ heap' = Append(heap, res.made.val)
         /\ Returned(Call("reconstruct", b, args, Ok(Ref(Len(heap) + 1))))

Reconstruct(b, V, g, sub_domain, method) ==
    /\ b \in 1..Len(heap)
    /\ heap[b].class = "DirichletBC"
    /\ ReconstructReturns(b, [V |-> V, g |-> g, sub_domain |-> sub_domain, method |-> method],
                          reconstruct(heap[b], V, g, sub_domain, method, state))
    /\ UNCHANGED <<state, r, u>>

\* The overrides callers pass to reconstruct: every field None or its
\* current value, or one field another value and the rest None.
NoOverride == [V |-> NoSpace, g |-> NoVal, sub_domain |-> NoVal, method |-> NoMethod]

SameOverrides(self) ==
    [V : {NoSpace, self._function_space}, g : {NoVal, self._original_arg},
     sub_domain : {NoVal, self.sub_domain}, method : {NoMethod, self.method}]

OtherOverrides(self) ==
    {[NoOverride EXCEPT !.V = V] : V \in {"V", "Q"} \ {self._function_space}}
    \cup {[NoOverride EXCEPT !.g = g] :
            g \in {Literal(1), Expression("e1"), Function("Q", "h")} \ {self._original_arg}}
    \cup {[NoOverride EXCEPT !.sub_domain = sd] : sd \in {PyInt(1), PyInt(2)} \ {self.sub_domain}}
    \cup {[NoOverride EXCEPT !.method = m] : m \in Methods \ {self.method}}

Overrides(self) == SameOverrides(self) \cup OtherOverrides(self)

\* The caller drops the object reconstruct has made for it.
Release ==
    /\ Len(heap) = 2
    /\ heap' = SubSeq(heap, 1, 1)
    /\ Returned(Call("del", 2, NoVal, Ok(NoVal)))
    /\ UNCHANGED <<state, r, u>>

\* The caller works on the object it constructed; it looks at what
\* reconstruct has made and drops it before it goes on.
NextRecon ==
    \/ Len(heap) = 1 /\ Read(1)
    \/ Len(heap) = 1 /\ \E val \in Values : SetValue(1, val)
    \/ Len(heap) = 1 /\ Homogenize(1)
    \/ Len(heap) = 1 /\ Restore(1)
    \/ Len(heap) = 1 /\ \E e \in Expressions : Mutate(e)
    \/ Len(heap) = 1 /\ \E a \in Overrides(heap[1]) :
                           Reconstruct(1, a.V, a.g, a.sub_domain, a.method)
    \/ Release

InitRecon == Constructed(FALSE)

SpecRecon == InitRecon /\ [][NextRecon]_vars

-----------------------------------------------------------------------------
(* Properties of reconstruct.                                              *)

\* C5: reconstruct() with no overrides, or with overrides that all equal
\* the object's function space, _original_arg, sub_domain and method,
\* returns the object itself and constructs nothing, in whatever state the
\* object is.
C5_ReconstructIdentity ==
    [][(ret'.op = "reconstruct" /\ ret'.arg \in SameOverrides(heap[ret'.self]))
          => (ret'.err = "" /\ ret'.val = Ref(ret'.self) /\ heap' = heap)]_vars

\* C5, witness: reconstruct has just been called with g equal to
\* _original_arg on a homogenized object whose original Expression has
\* been mutated since its last resolution.
C5_Witness ==
    /\ ret.op = "reconstruct"
    /\ ret.arg \in SameOverrides(heap[ret.self])
    /\ ret.arg.g = heap[ret.self]._original_arg
    /\ heap[ret.self]._currently_zeroed
    /\ isinstance(heap[ret.self]._original_val, "Expression")
    /\ StateOf(heap[ret.self]._original_val, state) # heap[ret.self]._expression_state

\* C6: reconstruct() with one override that differs from the field's
\* current value returns a distinct object in which that field has the
\* overridden value and every other field equals the original's; in
\* particular reconstruct(method=m) yields an object whose method is m.
C6_ReconstructChangesThatField ==
    (ret.op = "reconstruct" /\ ret.err = "" /\ ret.arg \in OtherOverrides(heap[ret.self]))
        => /\ ret.val # Ref(ret.self)
           /\ heap[ret.val.obj]._function_space =
                IF ret.arg.V # NoSpace THEN ret.arg.V ELSE heap[ret.self]._function_space
           /\ IF ret.arg.g # NoVal
              THEN heap[ret.val.obj]._original_val = ret.arg.g
              ELSE heap[ret.val.obj]._original_arg = heap[ret.self]._original_arg
           /\ heap[ret.val.obj].sub_domain =
                IF ret.arg.sub_domain # NoVal THEN ret.arg.sub_domain ELSE heap[ret.self].sub_domain
           /\ heap[ret.val.obj].method =
                IF ret.arg.method # NoMethod THEN ret.arg.method ELSE heap[ret.self].method

-----------------------------------------------------------------------------
(* Construction                                                            *)

\* A constructor returns: the new object joins the heap, or nothing does.
ConstructorReturns(op, args, res) ==
    /\ heap' = IF res.err = "" THEN Append(heap, res.val) ELSE heap
    /\ Returned(Call(op, 0, args,
                     IF res.err = "" THEN Ok(Ref(Len(heap) + 1)) ELSE res))
    /\ UNCHANGED <<state, r, u>>

\* BCBase(V, sub_domain, method)
ConstructBCBase(V, sub_domain, method) ==
    ConstructorReturns("BCBase",
        [V |-> V, sub_domain |-> sub_domain, method |-> method],
        BCBase_init(NewObject("BCBase"), V, sub_domain, method))

\* DirichletBC(V, g, sub_domain, method)
ConstructDirichletBC(V, g, sub_domain, method) ==
    ConstructorReturns("DirichletBC",
        [V |-> V, g |-> g, sub_domain |-> sub_domain, method |-> method],
        DirichletBC_init(V, g, sub_domain, method, state))

\* EquationBC(eq, u, sub_domain, J, Jp, method)
ConstructEquationBC(eq, unknown, sub_domain, J, Jp, method) ==
    ConstructorReturns("EquationBC",
        [V |-> IF IsFormOrTensor(eq.lhs) THEN eq.lhs.fs ELSE NoSpace,
         eq |-> eq, u |-> unknown, sub_domain |-> sub_domain, J |-> J, Jp |-> Jp,
         method |-> method],
        EquationBC_init(eq, unknown, sub_domain, J, Jp, method))

\* EquationBCSplit(ebc, form_str)
ConstructEquationBCSplit(b, form_str) ==
    /\ b \in 1..Len(heap)
    /\ ConstructorReturns("EquationBCSplit", [ebc |-> Ref(b), form_str |-> form_str],
                          EquationBCSplit_init(heap[b], form_str))

\* The caller drops the object it constructed last.
Drop ==
    /\ Len(heap) > 0
    /\ heap' = SubSeq(heap, 1, Len(heap) - 1)
    /\ Returned(Call("del", Len(heap), NoVal, Ok(NoVal)))
    /\ UNCHANGED <<state, r, u>>

\* The forms callers build equations and Jacobians from.
Forms ==
    {Form("a", 2, "V"), Form("L", 1, "V"), Form("M", 0, "V"), Form("a", 2, "W0"),
     Form("F", 1, "W1c0"), Form("F", 1, "A"), Tensor("T", 1, "V"), Tensor("S", 2, "V")}

Equations ==
    {Equation(lhs, rhs) : lhs \in Forms \cup {Literal(0)}, rhs \in Forms \cup {Literal(0), Literal(1)}}

Jacobians == {NoVal, Form("a", 2, "V"), Form("L", 1, "V"), Tensor("S", 2, "V"), Literal(1)}

InitCtor ==
    /\ heap = <<>>
    /\ state = [e \in Expressions |-> 0]
    /\ r = NoField
    /\ u = NoField
    /\ ret = Call("", 0, NoVal, Ok(NoVal))
    /\ watch = [on |-> FALSE, set |-> NoSet, round |-> NoRound]

\* The caller catches the exception the last call raised.
Catch ==
    /\ ret.err # ""
    /\ Returned(Call("except", 0, NoVal, Ok(NoVal)))
    /\ UNCHANGED <<heap, state, r, u>>

\* The caller constructs an object, possibly a split of the EquationBC it
\* has just constructed, and drops what it constructed; it catches an
\* exception before it goes on.
NextCtor ==
    \/ /\ Len(heap) = 0 /\ ret.err = ""
       /\ \E V \in FunctionSpaces, sd \in SubDomains, m \in Methods :
             ConstructBCBase(V, sd, m)
    \/ /\ Len(heap) = 0 /\ ret.err = ""
       /\ \E V \in FunctionSpaces, g \in Values, sd \in SubDomains, m \in Methods :
             ConstructDirichletBC(V, g, sd, m)
    \/ /\ Len(heap) = 0 /\ ret.err = ""
       /\ \E eq \in Equations, J \in Jacobians, Jp \in Jacobians, m \in Methods :
             ConstructEquationBC(eq, Function("V", "u"), PyInt(1), J, Jp, m)
    \/ /\ Len(heap) = 1 /\ ret.err = ""
       /\ \E form_str \in {"F", "J", "Jp", "X"} : ConstructEquationBCSplit(1, form_str)
    \/ Catch
    \/ Drop

SpecCtor == InitCtor /\ [][NextCtor]_vars

\* The function spaces BCBase.__init__ accepts.
Supported(V) ==
    BCBase_init(NewObject("BCBase"), V, PyInt(1), "topological").err = ""

\* C7: a constructor of any of the classes, called on a space BCBase
\* accepts with a method that is neither "topological" nor "geometric",
\* raises ValueError and makes no object; an object constructed with one of
\* the two methods has that method.
C7_MethodIsCheckedAndKept ==
    (ret.op \in {"BCBase", "DirichletBC", "EquationBC"} /\ ret.arg.V # NoSpace
        /\ Supported(ret.arg.V))
      => /\ ret.arg.method \notin {"topological", "geometric"} => ret.err = "ValueError"
         /\ (ret.arg.method \in {"topological", "geometric"} /\ ret.err = "")
               => heap[ret.val.obj].method = ret.arg.method

-----------------------------------------------------------------------------
(* Nodes and Functions (collaborators), and apply                          *)

\* The nodes of every scalar space.  Facet 1 of the mesh touches node 1
\* and facet 2 touches node 4; the basis functions of nodes 2 and 3 do not
\* vanish on facet 1 and facet 2; a Hermite space has the value and the
\* derivative at a vertex as nodes 1, 2 and 3, 4.
Nodes == {1, 2, 3, 4}

FacetNodes(V, id, method) ==
    IF FS[V].finat_element = "Hermite" \/ method = "geometric"
    THEN IF id = 1 THEN <<1, 2>> ELSE <<3, 4>>
    ELSE IF id = 1 THEN <<1>> ELSE <<4>>

RECURSIVE NodesOfFacets(_, _, _)
NodesOfFacets(V, ids, method) ==
    IF ids = <<>> THEN <<>>
    ELSE FacetNodes(V, Head(ids), method) \o NodesOfFacets(V, Tail(ids), method)

\* FunctionSpace.boundary_nodes(sub_domain, method)
boundary_nodes(V, sub_domain, method) ==
    NodesOfFacets(V,
                  IF "str" \in DOMAIN sub_domain THEN <<1, 2>> ELSE as_tuple(sub_domain).tuple,
                  method)

\* Python's s[::2]
every_second(s) == [i \in 1..((Len(s) + 1) \div 2) |-> s[2 * i - 1]]

\* BCBase.nodes, when it is computed
nodes(self) ==
    IF /\ FS[self._function_space].finat_element = "Hermite"
       /\ FS[self._function_space].topological_dimension = 1
    THEN every_second(boundary_nodes(self._function_space, self.sub_domain, self.method))
    ELSE boundary_nodes(self._function_space, self.sub_domain, self.method)

\* BCBase.nodes computed at every read.
with_nodes_recomputed(self) ==
    [self EXCEPT !.nodes = [cached |-> TRUE, v |-> nodes(self)],
                 !.boundary_nodes_calls = @ + 1]

\* BCBase.nodes (cached_property): self after a read of it.
with_nodes(self) ==
    IF self.nodes.cached THEN self
    ELSE [self EXCEPT !.nodes = [cached |-> TRUE, v |-> nodes(self)],
                      !.boundary_nodes_calls = @ + 1]

\* BCBase.node_set: self after the read of the cached properties node_set
\* and nodes, each computed on its first read only; boundary_nodes_calls
\* counts the calls of boundary_nodes made for self.
with_node_set(self) ==
    IF self.node_set.cached THEN self
    ELSE [with_nodes(self) EXCEPT
            !.node_set = [cached |-> TRUE,
                          v |-> {with_nodes(self).nodes.v[i] :
                                    i \in 1..Len(with_nodes(self).nodes.v)}]]

\* The scalar spaces a Function on V has data for.
RECURSIVE Leaves(_)
Leaves(V) ==
    IF SubSpaces(V) = <<>> THEN {V}
    ELSE UNION {Leaves(SubSpaces(V)[i]) : i \in 1..Len(SubSpaces(V))}

\* A Function on V whose value at node n is base + n, a matrix, and the
\* value of a boundary value at a node.
Field(V, base) ==
    [kind |-> "Function", fs |-> V, dat |-> [l \in Leaves(V) |-> [n \in Nodes |-> base + n]]]

Matrix == [kind |-> "Matrix", bcs |-> {}]

ValueAt(g, n) ==
    CASE isinstance(g, "Literal") -> g.c
      [] isinstance(g, "Function") /\ "of" \notin DOMAIN g -> 10 + n
      [] isinstance(g, "Function") /\ isinstance(g.of, "Expression") ->
            20 + 2 * StateOf(g.of, [e \in Expressions |-> 0]) + g.at
              + (IF g.of.id = "e2" THEN 5 ELSE 0)
      [] OTHER -> 30 + n

\* Function.sub(i) of the view of a Function on the space `view`: the view
\* on a subspace; a scalar Function has itself as its only component.
sub(view, i) ==
    IF SubSpaces(view) = <<>>
    THEN IF i = 0 THEN Ok(view) ELSE Raise("IndexError")
    ELSE IF i < Len(SubSpaces(view)) THEN Ok(SubSpaces(view)[i + 1]) ELSE Raise("IndexError")

\* for idx in self._indices: r = r.sub(idx)
RECURSIVE index_into(_, _)
index_into(view, indices) ==
    IF view.err # "" \/ indices = <<>> THEN view
    ELSE index_into(sub(view.val, Head(indices)), Tail(indices))

\* Function.assign(expr, subset) through the view `view` of target: the
\* nodes of subset in the data of the view get the values of expr there.
assign(target, view, expr, subset) ==
    [target EXCEPT !.dat =
        [l \in DOMAIN target.dat |->
            [n \in Nodes |->
                IF l \in Leaves(view) /\ n \in subset THEN expr[l][n] ELSE target.dat[l][n]]]]

\* The loop of apply (lines 283-289) that only the BC's own space passes.
RECURSIVE matches_own_space_only(_, _)
matches_own_space_only(fs, target_fs) == fs = target_fs

\* The loop of apply (lines 283-289): fs and its parents are compared with
\* the space of the target.
RECURSIVE matches_up(_, _)
matches_up(fs, target_fs) ==
    IF fs = target_fs THEN TRUE
    ELSE IF FS[fs].parent # NoSpace THEN matches_up(FS[fs].parent, target_fs)
    ELSE FALSE

\* Lines 296-299 of apply: `got` is what the read of function_arg gave,
\* `view` the indexed target (and current state).
apply_assign(got, target, current, view) ==
    [self |-> with_node_set(got.self), err |-> "",
     r |-> IF current # NoVal
           THEN assign(target, view,
                       [l \in Leaves(view) |->
                           [n \in Nodes |-> current.dat[l][n] - ValueAt(got.val, n)]],
                       with_node_set(got.self).node_set.v)
           ELSE assign(target, view,
                       [l \in Leaves(view) |-> [n \in Nodes |-> ValueAt(got.val, n)]],
                       with_node_set(got.self).node_set.v)]

\* Lines 291-299 of apply.
apply_indexed(self, target, current, view, st) ==
    IF view.err # "" THEN [self |-> self, r |-> target, err |-> view.err]
    ELSE apply_assign(function_arg_get(self, st), target, current, view.val)

\* DirichletBC.apply(self, r, u): self and r after the call, and the
\* exception raised; b is the reference to self.
apply(self, b, target, current, st) ==
    IF isinstance(target, "Matrix")
    THEN [self |-> self, r |-> [target EXCEPT !.bcs = @ \cup {Ref(b)}], err |-> ""]
    ELSE IF current # NoVal /\ current.fs # target.fs
    THEN [self |-> self, r |-> target, err |-> "RuntimeError"]
    ELSE IF ~matches_up(self._function_space, target.fs)
    THEN [self |-> self, r |-> target, err |-> "RuntimeError"]
    ELSE apply_indexed(self, target, current, index_into(Ok(target.fs), self._indices), st)

\* bc.apply(r) and bc.apply(r, u)
ApplyReturns(b, with_u, res) ==
    /\ heap' = [heap EXCEPT ![b] = res.self]
    /\ r' = res.r
    /\ Returned(Call("apply", b, [with_u |-> with_u], [err |-> res.err, val |-> NoVal]))

Apply(b, with_u) ==
    /\ b \in 1..Len(heap)
    /\ heap[b].class = "DirichletBC"
    /\ r # NoField
    /\ with_u => u # NoField
    /\ ApplyReturns(b, with_u, apply(heap[b], b, r, IF with_u THEN u ELSE NoVal, state))
    /\ UNCHANGED <<state, u>>

\* The spaces the caller has Functions on.
FieldSpaces == {"V", "Q", "W", "W0", "W1", "W1c0", "W1c1"}

\* One DirichletBC has been constructed and the caller holds a target (a
\* Function or a matrix) and possibly a current state.
InitApply ==
    /\ heap \in {<<made.val>> :
                   made \in {m \in {DirichletBC_init(V, g, sd, "topological",
                                                     [e \in Expressions |-> 0]) :
                                        V \in FieldSpaces,
                                        g \in {Literal(1), Expression("e1")},
                                        sd \in {PyInt(1), PyStr("on_boundary")}} : m.err = ""}}
    /\ state = [e \in Expressions |-> 0]
    /\ r \in {Field(V, 50) : V \in FieldSpaces} \cup {Matrix}
    /\ u \in {NoField} \cup {Field(V, 70) : V \in FieldSpaces}
    /\ ret = Call("DirichletBC", 1, NoVal, Ok(NoVal))
    /\ watch = [on |-> FALSE, set |-> NoSet, round |-> NoRound]

NextApply ==
    \/ \E with_u \in BOOLEAN : Apply(1, with_u)
    \/ Read(1)
    \/ Homogenize(1)
    \/ Restore(1)
    \/ Mutate("e1")

SpecApply == InitApply /\ [][NextApply]_vars

-----------------------------------------------------------------------------
(* apply: what is written, and which targets are accepted                  *)

\* The space V and the spaces V is a subspace of, by the parent links.
RECURSIVE AncestorsOrSelf(_)
AncestorsOrSelf(V) ==
    IF FS[V].parent = NoSpace THEN {V} ELSE {V} \cup AncestorsOrSelf(FS[V].parent)

\* What apply is to write at node n of a target on the BC's space: the
\* resolved value, or the current state minus the resolved value.
Written(b, with_u, n) ==
    IF with_u
    THEN [l \in Leaves(r.fs) |-> u.dat[l][n] - ValueAt(function_arg_get(heap[b], state).val, n)]
    ELSE [l \in Leaves(r.fs) |-> ValueAt(function_arg_get(heap[b], state).val, n)]

WrittenWhenHomogenized(with_u, n) ==
    IF with_u THEN [l \in Leaves(r.fs) |-> u.dat[l][n]] ELSE [l \in Leaves(r.fs) |-> 0]

Entry(field, n) == [l \in Leaves(field.fs) |-> field.dat[l][n]]

\* The case of C8 and C9: apply on a Function, the current state absent or
\* on the space of the target.
AppliedToField(b) ==
    /\ ret'.op = "apply" /\ ret'.self = b
    /\ Apply(b, ret'.arg.with_u)
    /\ isinstance(r, "Function")
    /\ ret'.arg.with_u => u.fs = r.fs

\* C8: for a target r on the BC's own space, apply(r) sets r[n] to the
\* resolved value at n for every n of node_set and leaves the other entries
\* unchanged; apply(r, u) sets r[n] to u[n] minus the resolved value there,
\* leaves the other entries and u unchanged; a homogenized BC writes 0 and
\* u[n].
C8_ApplyWritesNodeSet ==
    [][\A b \in {1} :
         (AppliedToField(b) /\ r.fs = heap[b]._function_space) =>
            /\ ret'.err = ""
            /\ u' = u
            /\ isinstance(r', "Function") /\ r'.fs = r.fs
            /\ \A n \in Nodes :
                 Entry(r', n) =
                    IF n \in with_node_set(heap[b]).node_set.v
                    THEN IF heap[b]._currently_zeroed
                         THEN WrittenWhenHomogenized(ret'.arg.with_u, n)
                         ELSE Written(b, ret'.arg.with_u, n)
                    ELSE Entry(r, n)]_vars

\* C9 as stated: apply on a Function succeeds exactly when the BC's space
\* is the target's space or one of the target's ancestors, and otherwise
\* fails with IncompatibleSpaceError and leaves the target unmodified.
C9_TargetWalksUpToBC ==
    [][\A b \in {1} :
         AppliedToField(b) =>
            IF heap[b]._function_space \in AncestorsOrSelf(r.fs)
            THEN ret'.err = ""
            ELSE ret'.err = "RuntimeError" /\ r' = r]_vars

\* C9, amended: apply on a Function (the current state absent or on the
\* target's space) fails with IncompatibleSpaceError exactly when the
\* target's space is neither the BC's space nor one of the BC's space's
\* ancestors, and then leaves the target unmodified.
C9_BCWalksUpToTarget ==
    [][\A b \in {1} :
         AppliedToField(b) =>
            /\ ret'.err = "RuntimeError" <=> r.fs \notin AncestorsOrSelf(heap[b]._function_space)
            /\ ret'.err = "RuntimeError" => r' = r]_vars

\* apply(r) has failed on a target whose space is not on the BC's chain of
\* parents.
C9_Witness ==
    /\ ret.op = "apply" /\ ~ret.arg.with_u
    /\ ret.err = "RuntimeError"
    /\ isinstance(r, "Function")
    /\ r.fs \notin AncestorsOrSelf(heap[ret.self]._function_space)
    /\ heap[ret.self]._function_space \in AncestorsOrSelf(r.fs)

-----------------------------------------------------------------------------
(* The function homogenize of the module                                   *)

\* A Python list.
PyList(s) == [list |-> s]

\* What the function returns: the heap with the objects it has made, the
\* value returned and the exception raised.
homogenize_made(hp, made) ==
    IF made.err # "" THEN [heap |-> hp, val |-> NoVal, err |-> made.err]
    ELSE [heap |-> Append(hp, made.val), val |-> Ref(Len(hp) + 1), err |-> ""]

\* homogenize that zeroes bc itself and returns it.
homogenize_one_in_place(hp, bc, st) ==
    [heap |-> [hp EXCEPT ![bc.obj] = homogenize(hp[bc.obj], st)], val |-> bc, err |-> ""]

\* Line 326 with the value of bc in the place of 0.
homogenize_one_keeping_value(hp, bc, st) ==
    homogenize_made(hp, DirichletBC_init(hp[bc.obj]._function_space, hp[bc.obj]._original_val,
                                         hp[bc.obj].sub_domain, "topological", st))

\* Line 326: DirichletBC(bc.function_space(), 0, bc.sub_domain)
homogenize_one(hp, bc, st) ==
    homogenize_made(hp, DirichletBC_init(hp[bc.obj]._function_space, Literal(0),
                                         hp[bc.obj].sub_domain, "topological", st))

\* homogenize(bc) of the module (lines 315-326): iterating over a
\* DirichletBC raises the TypeError that line 324 catches.
RECURSIVE homogenize_all(_, _, _)
RECURSIVE homogenize_each(_, _, _, _)
RECURSIVE homogenize_next(_, _, _, _)
homogenize_all(hp, bc, st) ==
    IF "list" \in DOMAIN bc THEN homogenize_each(hp, bc.list, <<>>, st)
    ELSE homogenize_one(hp, bc, st)

\* [homogenize(i) for i in bc]: `done` are the results so far.
homogenize_each(hp, items, done, st) ==
    IF items = <<>> THEN [heap |-> hp, val |-> PyList(done), err |-> ""]
    ELSE homogenize_next(homogenize_all(hp, Head(items), st), Tail(items), done, st)

homogenize_next(res, rest, done, st) ==
    IF res.err # "" THEN res
    ELSE homogenize_each(res.heap, rest, Append(done, res.val), st)

\* The lists of at most n references to the objects of the heap.
RECURSIVE ListsOf(_, _)
ListsOf(refs, n) ==
    IF n = 0 THEN {<<>>}
    ELSE ListsOf(refs, n - 1) \cup {Append(l, x) : l \in ListsOf(refs, n - 1), x \in refs}

HomogenizeAllReturns(bc, res) ==
    /\ heap' = res.heap
    /\ Returned(Call("homogenize_all", 0, bc, [err |-> res.err, val |-> res.val]))

\* homogenize(bc), the caller holding no result of an earlier call.
HomogenizeAll(bc) ==
    /\ ret.op # "homogenize_all"
    /\ HomogenizeAllReturns(bc, homogenize_all(heap, bc, state))
    /\ UNCHANGED <<state, r, u>>

\* The caller drops what homogenize returned.
ReleaseAll ==
    /\ ret.op = "homogenize_all"
    /\ heap' = SubSeq(heap, 1, Len(heap) - (IF "list" \in DOMAIN ret.val
                                            THEN Len(ret.val.list) ELSE 1))
    /\ Returned(Call("del", 0, NoVal, Ok(NoVal)))
    /\ UNCHANGED <<state, r, u>>

\* The DirichletBCs the caller has constructed.
SomeBCs ==
    {made.val : made \in {DirichletBC_init(V, g, sd, "topological", [e \in Expressions |-> 0]) :
                             V \in {"V", "W0"},
                             g \in {Literal(1), Expression("e1")},
                             sd \in {PyInt(1), PyTuple(<<1, 2>>)}}}

InitHom ==
    /\ heap \in UNION {[1..n -> SomeBCs] : n \in 1..MaxBCs}
    /\ state = [e \in Expressions |-> 0]
    /\ r = NoField
    /\ u = NoField
    /\ ret = Call("DirichletBC", 1, NoVal, Ok(NoVal))
    /\ watch = [on |-> FALSE, set |-> NoSet, round |-> NoRound]

NextHom ==
    \/ \E b \in 1..Len(heap) : HomogenizeAll(Ref(b))
    \/ \E l \in ListsOf({Ref(b) : b \in 1..Len(heap)}, MaxList) : HomogenizeAll(PyList(l))
    \/ ReleaseAll
    \/ ret.op # "homogenize_all" /\ Homogenize(1)
    \/ ret.op # "homogenize_all" /\ Restore(1)

SpecHom == InitHom /\ [][NextHom]_vars

\* bc is a DirichletBC on the space and the sub_domain of `of`, with the
\* value zero.
HomogeneousVersion(bc, of) ==
    /\ bc.obj \in 1..Len(heap)
    /\ heap[bc.obj].class = "DirichletBC"
    /\ heap[bc.obj]._function_space = heap[of.obj]._function_space
    /\ heap[bc.obj].sub_domain = heap[of.obj].sub_domain
    /\ heap[bc.obj]._original_val = Literal(0)
    /\ \A n \in Nodes : ValueAt(function_arg_get(heap[bc.obj], state).val, n) = 0

\* C10: homogenize of a single BC returns a single BC on the same space
\* with the same sub_domain and the value zero; of an iterable of N BCs it
\* returns a list of N BCs, the i-th the homogeneous version of the i-th
\* input.
C10_HomogenizeAll ==
    ret.op = "homogenize_all" =>
        /\ ret.err = ""
        /\ IF "list" \in DOMAIN ret.arg
           THEN /\ "list" \in DOMAIN ret.val
                /\ Len(ret.val.list) = Len(ret.arg.list)
                /\ \A i \in 1..Len(ret.arg.list) :
                      HomogeneousVersion(ret.val.list[i], ret.arg.list[i])
           ELSE /\ "obj" \in DOMAIN ret.val
                /\ HomogeneousVersion(ret.val, ret.arg)

\* homogenize has returned for a list of two BCs with different sub_domains
\* and values that are not zero.
C10_Witness ==
    /\ ret.op = "homogenize_all"
    /\ "list" \in DOMAIN ret.arg
    /\ Len(ret.arg.list) = 2
    /\ heap[ret.arg.list[1].obj].sub_domain # heap[ret.arg.list[2].obj].sub_domain
    /\ heap[ret.arg.list[1].obj]._function_space # heap[ret.arg.list[2].obj]._function_space
    /\ isinstance(heap[ret.arg.list[1].obj]._original_val, "Expression")

-----------------------------------------------------------------------------
(* zero and set, and the operations of one object taken together           *)

\* The node set of the data of a Function (view) on V: a component of a
\* vector space has the nodes of the vector space.
node_set_of(V) == IF FS[V].component # None THEN FS[V].parent ELSE V

\* Lines 122-125 of zero: r.dat.zero(subset) raises MapValueError for a
\* subset of another set than that of the data.
zero_subset(self, target, view) ==
    IF node_set_of(view) # node_set_of(self._function_space)
    THEN [self |-> self, r |-> target, err |-> "RuntimeError"]
    ELSE [self |-> self, err |-> "",
          r |-> assign(target, view, [l \in Leaves(view) |-> [n \in Nodes |-> 0]],
                       self.node_set.v)]

zero_indexed(self, target, view) ==
    IF view.err # "" THEN [self |-> self, r |-> target, err |-> view.err]
    ELSE zero_subset(with_node_set(self), target, view.val)

\* BCBase.zero(self, r)
zero(self, target) ==
    IF isinstance(target, "Matrix")
    THEN [self |-> self, r |-> target, err |-> "NotImplementedError"]
    ELSE zero_indexed(self, target, index_into(Ok(target.fs), self._indices))

set_indexed(self, target, val, view, val_view) ==
    IF view.err # "" THEN [self |-> self, r |-> target, err |-> view.err]
    ELSE IF val_view.err # "" THEN [self |-> self, r |-> target, err |-> val_view.err]
    ELSE [self |-> with_node_set(self), err |-> "",
          r |-> assign(target, view.val,
                       [l \in Leaves(view.val) |-> [n \in Nodes |-> val.dat[l][n]]],
                       with_node_set(self).node_set.v)]

\* DirichletBC.set(self, r, val), val a Function on the space of r
set(self, target, val) ==
    set_indexed(self, target, val, index_into(Ok(target.fs), self._indices),
                index_into(Ok(val.fs), self._indices))

\* bc.nodes and bc.node_set
NodesRead(b) ==
    /\ b \in 1..Len(heap)
    /\ heap' = [heap EXCEPT ![b] = with_nodes(heap[b])]
    /\ Returned(Call("nodes", b, NoVal, Ok(with_nodes(heap[b]).nodes.v)))
    /\ UNCHANGED <<state, r, u>>

NodeSetRead(b) ==
    /\ b \in 1..Len(heap)
    /\ heap' = [heap EXCEPT ![b] = with_node_set(heap[b])]
    /\ Returned(Call("node_set", b, NoVal, Ok(with_node_set(heap[b]).node_set.v)))
    /\ UNCHANGED <<state, r, u>>

WriteReturns(op, b, res) ==
    /\ heap' = [heap EXCEPT ![b] = res.self]
    /\ r' = res.r
    /\ Returned(Call(op, b, NoVal, [err |-> res.err, val |-> NoVal]))

\* bc.zero(r)
Zero(b) ==
    /\ b \in 1..Len(heap)
    /\ r # NoField
    /\ WriteReturns("zero", b, zero(heap[b], r))
    /\ UNCHANGED <<state, u>>

\* bc.set(r, u)
Set(b) ==
    /\ b \in 1..Len(heap)
    /\ heap[b].class = "DirichletBC"
    /\ isinstance(r, "Function") /\ isinstance(u, "Function") /\ u.fs = r.fs
    /\ WriteReturns("set", b, set(heap[b], r, u))
    /\ UNCHANGED <<state, u>>

\* The spaces and the values of the objects of SpecOps, and the spaces of
\* the caller's Functions.
OpsSpaces == {"V", "W0", "W1", "W1c0", "H1", "H2", "A"}
OpsValues == {Literal(1), Function("Q", "f")}
OpsFieldSpaces == {"V", "W1"}

\* No object yet; the caller holds a target and possibly a second Function.
InitOps ==
    /\ heap = <<>>
    /\ state = [e \in Expressions |-> 0]
    /\ r \in {Field(V, 50) : V \in OpsFieldSpaces} \cup {Matrix}
    /\ u \in {NoField} \cup {Field(V, 70) : V \in OpsFieldSpaces}
    /\ isinstance(r, "Function") /\ isinstance(u, "Function") => u.fs = r.fs
    /\ ret = Call("", 0, NoVal, Ok(NoVal))
    /\ watch = [on |-> FALSE, set |-> NoSet, round |-> NoRound]

\* The caller constructs one object, uses it and drops it.
NextOps ==
    \/ /\ Len(heap) = 0 /\ ret.err = ""
       /\ \E V \in OpsSpaces, g \in OpsValues, sd \in {PyInt(1), PyStr("on_boundary")},
             m \in {"topological", "geometric"} :
             ConstructDirichletBC(V, g, sd, m)
    \/ /\ Len(heap) = 0 /\ ret.err = ""
       /\ \E V \in OpsSpaces, sd \in {PyInt(1), PyStr("on_boundary")},
             m \in {"topological", "geometric"} :
             ConstructBCBase(V, sd, m)
    \/ Catch
    \/ Drop
    \/ NodesRead(1)
    \/ NodeSetRead(1)
    \/ Zero(1)
    \/ Set(1)
    \/ \E with_u \in BOOLEAN : Apply(1, with_u)
    \/ Homogenize(1)
    \/ Restore(1)
    \/ \E val \in OpsValues : SetValue(1, val)
    \/ Read(1)

SpecOps == InitOps /\ [][NextOps]_vars

-----------------------------------------------------------------------------
(* Nodes are resolved lazily and once                                      *)

SetOf(seq) == {seq[i] : i \in 1..Len(seq)}

\* C11: no constructor, returning or raising, calls boundary_nodes; over
\* any sequence of nodes / node_set / zero / apply / set calls (and the
\* value operations) on an object boundary_nodes is called at most once for
\* it, and every access gives the nodes of the first access.
C11_NodesLazyAndMemoized ==
    [][/\ ret'.op \in {"BCBase", "DirichletBC"} =>
             IF ret'.err = ""
             THEN /\ heap'[Len(heap')].boundary_nodes_calls = 0
                  /\ ~heap'[Len(heap')].nodes.cached
                  /\ ~heap'[Len(heap')].node_set.cached
             ELSE heap' = heap
       /\ \A b \in 1..Len(heap) :
             b <= Len(heap') =>
                /\ heap'[b].boundary_nodes_calls <= 1
                /\ heap[b].nodes.cached => heap'[b].nodes = heap[b].nodes
                /\ heap[b].node_set.cached => heap'[b].node_set = heap[b].node_set
                /\ heap'[b].node_set.cached =>
                      /\ heap'[b].nodes.cached
                      /\ heap'[b].node_set.v = SetOf(heap'[b].nodes.v)
       /\ ret'.op = "nodes" => ret'.val = heap'[ret'.self].nodes.v
       /\ ret'.op = "node_set" => ret'.val = heap'[ret'.self].node_set.v]_vars

\* nodes has been read on an object whose node_set had been read before.
C11_Witness ==
    /\ ret.op = "nodes"
    /\ heap[ret.self].node_set.cached
    /\ heap[ret.self].boundary_nodes_calls = 1
    /\ FS[heap[ret.self]._function_space].finat_element = "Hermite"

-----------------------------------------------------------------------------
(* The cache key and the nodes                                             *)

\* The root of the tree of spaces V is in.
RECURSIVE RootOf(_)
RootOf(V) == IF FS[V].parent = NoSpace THEN V ELSE RootOf(FS[V].parent)

\* The spaces of the trees of W and M, the sub_domains and the objects of
\* SpecKeys.
KeySpaces == {V \in FunctionSpaces : RootOf(V) \in {"W", "M"}}
KeySubDomains ==
    {PyInt(1), PyTuple(<<1>>), PyInt(2), PyTuple(<<1, 2>>), PyStr("on_boundary")}
KeyBCs ==
    {made.val : made \in {BCBase_init(NewObject("BCBase"), V, sd, m) :
                             V \in KeySpaces, sd \in KeySubDomains,
                             m \in {"topological", "geometric"}}}
       \cup {made.val : made \in {DirichletBC_init(V, Literal(1), sd, "topological",
                                                   [e \in Expressions |-> 0]) :
                                     V \in KeySpaces, sd \in {PyInt(1), PyTuple(<<1>>)}}}

\* Two objects of one tree of spaces have been constructed.
InitKeys ==
    /\ heap \in [{1, 2} -> KeyBCs]
    /\ \A a, b \in {1, 2} : RootOf(heap[a]._function_space) = RootOf(heap[b]._function_space)
    /\ state = [e \in Expressions |-> 0]
    /\ r = NoField
    /\ u = NoField
    /\ ret = Call("", 0, NoVal, Ok(NoVal))
    /\ watch = [on |-> FALSE, set |-> NoSet, round |-> NoRound]

NextKeys ==
    \/ \E b \in 1..Len(heap) : NodesRead(b)
    \/ \E b \in 1..Len(heap) : NodeSetRead(b)

SpecKeys == InitKeys /\ [][NextKeys]_vars

\* C12: two BCs on spaces of one tree with equal cache keys resolve to the
\* same node set (and are on the same subspace, with the same sub_domain
\* ids and the same method).
C12_EqualKeySameNodes ==
    \A a, b \in 1..Len(heap) :
        (/\ RootOf(heap[a]._function_space) = RootOf(heap[b]._function_space)
         /\ heap[a]._cache_key = heap[b]._cache_key) =>
            /\ with_node_set(heap[a]).node_set.v = with_node_set(heap[b]).node_set.v
            /\ with_nodes(heap[a]).nodes.v = with_nodes(heap[b]).nodes.v
            /\ heap[a]._indices = heap[b]._indices
            /\ heap[a].method = heap[b].method
            /\ domain_args(heap[a].sub_domain) = domain_args(heap[b].sub_domain)

\* Two objects on the Hermite subspace with the sub_domains 1 and (1,) have
\* the same key and have resolved their nodes.
C12_Witness ==
    /\ Len(heap) >= 2
    /\ heap[1]._cache_key = heap[2]._cache_key
    /\ heap[1].sub_domain # heap[2].sub_domain
    /\ heap[1]._function_space = "M0"
    /\ heap[1].node_set.cached /\ heap[2].node_set.cached

-----------------------------------------------------------------------------
(* An EquationBC, its nested boundary conditions and its splits            *)

\* The lists a caller assigns to ebc.bcs: two list objects, told apart by
\* id, of references to the DirichletBC at 2.
NestedLists == {[id |-> 1, list |-> <<Ref(2)>>], [id |-> 2, list |-> <<>>]}

\* ebc.bcs = l, by the caller
AttachBCs(b, l) ==
    /\ b \in 1..Len(heap)
    /\ heap[b].class = "EquationBC"
    /\ heap' = [heap EXCEPT ![b].bcs = l]
    /\ Returned(Call("bcs=", b, l, Ok(NoVal)))
    /\ UNCHANGED <<state, r, u>>

\* The EquationBCs that can be constructed on V.
SomeEquationBCs ==
    {made.val : made \in {m \in {EquationBC_init(eq, Function("V", "u"), PyInt(1), J, Jp,
                                                 "topological") :
                                    eq \in Equations, J \in Jacobians, Jp \in Jacobians} :
                             m.err = ""}}

\* An EquationBC and a DirichletBC have been constructed.
InitSplit ==
    /\ heap \in {<<ebc, DirichletBC_init("V", Literal(0), PyInt(1), "topological",
                                         [e \in Expressions |-> 0]).val>> :
                    ebc \in SomeEquationBCs}
    /\ state = [e \in Expressions |-> 0]
    /\ r = NoField
    /\ u = NoField
    /\ ret = Call("EquationBC", 0, NoVal, Ok(Ref(1)))
    /\ watch = [on |-> FALSE, set |-> NoSet, round |-> NoRound]

\* The caller attaches nested boundary conditions, makes a split of the
\* EquationBC and drops it.
NextSplit ==
    \/ Len(heap) = 2 /\ \E l \in NestedLists : AttachBCs(1, l)
    \/ /\ Len(heap) = 2 /\ ret.err = ""
       /\ \E form_str \in {"F", "J", "Jp", "X"} : ConstructEquationBCSplit(1, form_str)
    \/ Catch
    \/ Len(heap) = 3 /\ Drop

SpecSplit == InitSplit /\ [][NextSplit]_vars

\* C13: an EquationBCSplit has, at its construction, the bcs of the
\* EquationBC it is made from (the same list object), so that what was
\* attached to the EquationBC before is seen through the split.
C13_SplitSharesNestedBCs ==
    [][(ret'.op = "EquationBCSplit" /\ ret'.err = "") =>
          heap'[ret'.val.obj].bcs = heap[ret'.arg.ebc.obj].bcs]_vars

-----------------------------------------------------------------------------
(* EquationBC from a linear equation                                       *)

\* C14: EquationBC from an equation whose lhs is a bilinear form: with the
\* zero rhs it is constructed with is_linear, J = lhs and
\* F = action(J, u); with a rhs form of one argument, with
\* F = action(J, u) - rhs; with a rhs form of another number of arguments
\* the constructor fails with FormShapeError.
C14_LinearEquation ==
    (/\ ret.op = "EquationBC"
     /\ isinstance(ret.arg.eq.lhs, "Form") /\ ret.arg.eq.lhs.nargs = 2
     /\ Supported(ret.arg.eq.lhs.fs)) =>
        CASE ret.arg.eq.rhs = Literal(0) ->
                /\ ret.err = ""
                /\ heap[ret.val.obj].is_linear
                /\ heap[ret.val.obj].J = ret.arg.eq.lhs
                /\ heap[ret.val.obj].F = action(ret.arg.eq.lhs, ret.arg.u)
          [] isinstance(ret.arg.eq.rhs, "Form") /\ ret.arg.eq.rhs.nargs = 1 ->
                /\ ret.err = ""
                /\ heap[ret.val.obj].is_linear
                /\ heap[ret.val.obj].J = ret.arg.eq.lhs
                /\ heap[ret.val.obj].F = minus(action(ret.arg.eq.lhs, ret.arg.u), ret.arg.eq.rhs)
          [] isinstance(ret.arg.eq.rhs, "Form") /\ ret.arg.eq.rhs.nargs # 1 ->
                ret.err = "ValueError"
          [] OTHER -> TRUE

-----------------------------------------------------------------------------
(* homogenize                                                              *)

\* C15: homogenize() from either state leaves the object homogenized with
\* the value zero and leaves _original_val, _original_arg and
\* _expression_state as they were; a second homogenize() changes nothing.
C15_HomogenizeFrame ==
    [][\A b \in {1} :
         (ret'.op = "homogenize" /\ ret'.self = b /\ Homogenize(b)) =>
            /\ heap'[b]._currently_zeroed
            /\ heap'[b]._function_arg = Literal(0)
            /\ function_arg_get(heap'[b], state').val = Literal(0)
            /\ heap'[b]._original_val = heap[b]._original_val
            /\ heap'[b]._original_arg = heap[b]._original_arg
            /\ heap'[b]._expression_state = heap[b]._expression_state
            /\ homogenize(heap'[b], state') = heap'[b]]_vars

\* homogenize() has returned on an object whose Expression has changed
\* since it was last interpolated.
C15_Witness ==
    /\ ret.op = "homogenize"
    /\ heap[ret.self]._currently_zeroed
    /\ isinstance(heap[ret.self]._original_val, "Expression")
    /\ StateOf(heap[ret.self]._original_val, state) # heap[ret.self]._expression_state
    /\ heap[ret.self]._original_arg # Literal(0)

-----------------------------------------------------------------------------
(* set_value with a value that is refused                                  *)

\* C16: set_value(g) with g a Function on another space than the BC's
\* raises IncompatibleSpaceError, with g that is no constant, list of
\* constants, Function or expression it raises InvalidValueError, and in
\* both cases every field of the object is as before the call.
C16_SetValueRefusedLeavesState ==
    [][\A b \in {1} :
         (ret'.op = "set_value" /\ ret'.self = b /\ SetValue(b, ret'.arg)) =>
            /\ (isinstance(ret'.arg, "Function") /\ ret'.arg.fs # heap[b]._function_space) =>
                  ret'.err = "RuntimeError" /\ heap' = heap
            /\ isinstance(ret'.arg, "Junk") =>
                  ret'.err = "ValueError" /\ heap' = heap]_vars

\* set_value has refused a value on a homogenized object whose Expression
\* has changed since it was interpolated.
C16_Witness ==
    /\ ret.op = "set_value"
    /\ ret.err = "RuntimeError"
    /\ heap[ret.self]._currently_zeroed
    /\ isinstance(heap[ret.self]._original_val, "Expression")
    /\ StateOf(heap[ret.self]._original_val, state) # heap[ret.self]._expression_state

-----------------------------------------------------------------------------
(* The index path                                                          *)

\* The index, then the component, of every space from V to the root.
RECURSIVE CollectedToRoot(_)
CollectedToRoot(V) ==
    (IF FS[V].index # None THEN <<FS[V].index>> ELSE <<>>)
       \o (IF FS[V].component # None THEN <<FS[V].component>> ELSE <<>>)
       \o (IF FS[V].parent # NoSpace THEN CollectedToRoot(FS[V].parent) ELSE <<>>)

\* C17: _indices of a constructed object is what is collected from its
\* space to the root (index, then component, at each level), reversed as a
\* whole; applied with sub to a Function on the root it gives the view on
\* the object's space; no later operation changes it.
C17_IndexPath ==
    [][/\ (ret'.op \in {"BCBase", "DirichletBC"} /\ ret'.err = "") =>
             /\ \A i \in 1..Len(CollectedToRoot(ret'.arg.V)) :
                   heap'[ret'.val.obj]._indices[i] =
                      CollectedToRoot(ret'.arg.V)[Len(CollectedToRoot(ret'.arg.V)) + 1 - i]
             /\ Len(heap'[ret'.val.obj]._indices) = Len(CollectedToRoot(ret'.arg.V))
             /\ index_into(Ok(RootOf(ret'.arg.V)), heap'[ret'.val.obj]._indices)
                   = Ok(ret'.arg.V)
       /\ \A b \in 1..Len(heap) :
             b <= Len(heap') => heap'[b]._indices = heap[b]._indices]_vars

\* An operation has returned on an object of a component space of a
\* subspace of the mixed space.
C17_Witness ==
    /\ Len(heap) = 1
    /\ heap[1]._function_space = "W1c0"
    /\ heap[1]._indices = <<1, 0>>
    /\ ret.op \in {"zero", "apply", "set", "homogenize", "restore", "set_value"}

-----------------------------------------------------------------------------
(* Where apply writes                                                      *)

\* C18: whenever apply on a Function passes the check of the spaces, the
\* view obtained by applying the whole of _indices to the target is on the
\* BC's own space, for a target on the root space and for a target on a
\* space between the root and the BC's space.
C18_IndexedTargetIsOnBCSpace ==
    [][\A b \in {1} :
         (AppliedToField(b) /\ ret'.err # "RuntimeError") =>
            /\ index_into(Ok(r.fs), heap[b]._indices) = Ok(heap[b]._function_space)
            /\ ret'.err = ""]_vars

-----------------------------------------------------------------------------
(* The restore point and the value                                         *)

\* C19: in every state reached by construction, reads of the value,
\* homogenize, restore, set_value and changes of the Expression, an object
\* that is not homogenized has the same _function_arg and _original_arg.
C19_RestorePointIsValueWhenActive ==
    \A b \in 1..Len(heap) :
        (heap[b].class = "DirichletBC" /\ ~heap[b]._currently_zeroed) =>
            heap[b]._function_arg = heap[b]._original_arg

\* set_value has returned on an object that read a changed Expression in
\* the course of it, or restore has returned after the Expression changed.
C19_Witness ==
    /\ ret.op \in {"set_value", "restore"}
    /\ ret.err = ""
    /\ ~heap[ret.self]._currently_zeroed
    /\ isinstance(heap[ret.self]._original_val, "Expression")
    /\ StateOf(heap[ret.self]._original_val, state) # heap[ret.self]._expression_state

-----------------------------------------------------------------------------
(* The function homogenize and its inputs                                  *)

\* The objects homogenize returned.
ReturnedRefs(val) ==
    IF "list" \in DOMAIN val THEN {val.list[i] : i \in 1..Len(val.list)} ELSE {val}

\* C20: the function homogenize leaves every object it is given as it was,
\* and every BC it returns is a new object, one for each input of a list,
\* not homogenized, with zero as its restore point: restore() on it leaves
\* the value zero.
C20_HomogenizeAllFrame ==
    [][(ret'.op = "homogenize_all" /\ HomogenizeAll(ret'.arg)) =>
          /\ \A b \in 1..Len(heap) : heap'[b] = heap[b]
          /\ \A x \in ReturnedRefs(ret'.val) :
                /\ x.obj \in (Len(heap) + 1)..Len(heap')
                /\ ~heap'[x.obj]._currently_zeroed
                /\ function_arg_get(restore(heap'[x.obj]), state').val = Literal(0)
          /\ "list" \in DOMAIN ret'.val =>
                \A i, j \in 1..Len(ret'.val.list) :
                    i # j => ret'.val.list[i] # ret'.val.list[j]]_vars

\* homogenize has returned for a list that names an object twice, the
\* object being homogenized.
C20_Witness ==
    /\ ret.op = "homogenize_all"
    /\ "list" \in DOMAIN ret.arg
    /\ Len(ret.arg.list) = 2
    /\ ret.arg.list[1] = ret.arg.list[2]
    /\ heap[ret.arg.list[1].obj]._currently_zeroed
    /\ isinstance(heap[ret.arg.list[1].obj]._original_val, "Expression")

====
